---- MODULE Spec2Model ----
(***************************************************************************)
(* Model of generate_images_json.py: a script that lists the directory     *)
(* "img", keeps the entry names that look like img*.{jpg,jpeg,png,webp,    *)
(* gif}, sorts them by (first number, lowercased name) and writes them as  *)
(* a JSON array to img/images.json, then prints a status line.             *)
(*                                                                         *)
(* A file name is a sequence of characters; a character is a one-character *)
(* string, except "U0663", which stands for the single character U+0663    *)
(* ARABIC-INDIC DIGIT THREE (a decimal digit that is not ASCII).           *)
(***************************************************************************)
EXTENDS Integers, Sequences, FiniteSets

\* ------------------------------------------------------------------ bounds
\* Largest number of entries (besides images.json) the directory ever holds.
MaxEntries == 3

\* ------------------------------------------------------------- characters
LowerLetters == <<"a","b","c","d","e","f","g","h","i","j","k","l","m",
                  "n","o","p","q","r","s","t","u","v","w","x","y","z">>
UpperLetters == <<"A","B","C","D","E","F","G","H","I","J","K","L","M",
                  "N","O","P","Q","R","S","T","U","V","W","X","Y","Z">>
AsciiDigits == <<"0","1","2","3","4","5","6","7","8","9">>

\* The position of c in the sequence q (c occurs in q).
IndexIn(q, c) == CHOOSE i \in 1..Len(q) : q[i] = c

Range(q) == {q[i] : i \in 1..Len(q)}

IsUpper(c) == c \in Range(UpperLetters)
IsAsciiDigit(c) == c \in Range(AsciiDigits)
\* Decimal digits outside ASCII (Unicode category Nd), with their values.
UnicodeDigits == {"U0663"}
UnicodeDigitValue(c) == 3

\* str.lower() on one character.
LowerChar(c) == IF IsUpper(c) THEN LowerLetters[IndexIn(UpperLetters, c)] ELSE c

\* str.lower(): every character lowercased, length kept.
Lower(s) == [i \in 1..Len(s) |-> LowerChar(s[i])]

\* The code point of a character: what Python compares strings by.
CodePoint(c) ==
    CASE c \in Range(LowerLetters) -> 96 + IndexIn(LowerLetters, c)
      [] c \in Range(UpperLetters) -> 64 + IndexIn(UpperLetters, c)
      [] IsAsciiDigit(c) -> 47 + IndexIn(AsciiDigits, c)
      [] c = "." -> 46
      [] c = "_" -> 95
      [] c = "U0663" -> 1635

\* Python's s < t on strings: lexicographic by code point, a proper prefix first.
RECURSIVE StrLess(_, _)
StrLess(s, t) ==
    IF t = <<>> THEN FALSE
    ELSE IF s = <<>> THEN TRUE
    ELSE IF s[1] # t[1] THEN CodePoint(s[1]) < CodePoint(t[1])
    ELSE StrLess(Tail(s), Tail(t))

\* ------------------------------------------------------------ the filter
Prefix == <<"i","m","g">>

\* allowed = {".jpg", ".jpeg", ".png", ".webp", ".gif"}
allowed == { <<".","j","p","g">>, <<".","j","p","e","g">>, <<".","p","n","g">>,
             <<".","w","e","b","p">>, <<".","g","i","f">> }

\* str.startswith
StartsWith(s, p) == Len(s) >= Len(p) /\ SubSeq(s, 1, Len(p)) = p

\* The last index of character c in s, 0 when c does not occur (str.rfind + 1).
RFind(s, c) ==
    IF \E i \in 1..Len(s) : s[i] = c
    THEN CHOOSE i \in 1..Len(s) : s[i] = c /\ \A j \in (i+1)..Len(s) : s[j] # c
    ELSE 0

\* os.path.splitext(p)[1] for a name without a path separator: the part from
\* the last dot, unless only dots precede that dot (then the extension is "").
SplitExt(p) ==
    LET dotIndex == RFind(p, ".")
    IN  IF dotIndex > 0 /\ \E k \in 1..(dotIndex - 1) : p[k] # "."
        THEN SubSeq(p, dotIndex, Len(p))
        ELSE <<>>

\* A filter that compares the name as it is, without lowercasing it.
MatchesCaseSensitive(name) ==
    StartsWith(name, Prefix) /\ SplitExt(name) \in allowed

\* The condition of the filter loop.
Matches(name) ==
    LET low == Lower(name)
    IN  StartsWith(low, Prefix) /\ SplitExt(low) \in allowed

\* The loop over the listing: the matching names, in listing order.
FilterListing(listing) == SelectSeq(listing, Matches)

\* --------------------------------------------------------------- the key
\* 10**9
Sentinel == 1000000000

\* \d on a str pattern: any Unicode decimal digit.
IsDigit(c) == IsAsciiDigit(c) \/ c \in UnicodeDigits

\* int() on one digit character.
DigitValue(c) == IF IsAsciiDigit(c) THEN IndexIn(AsciiDigits, c) - 1
                 ELSE UnicodeDigitValue(c)

HasDigit(s) == \E i \in 1..Len(s) : IsDigit(s[i])

\* re.search(r'(\d+)', s): the leftmost match, taken greedily.
MatchStart(s) == CHOOSE i \in 1..Len(s) : IsDigit(s[i]) /\ \A j \in 1..(i-1) : ~IsDigit(s[j])
MatchEnd(s) ==
    LET b == MatchStart(s)
    IN  CHOOSE e \in b..Len(s) :
            /\ \A j \in b..e : IsDigit(s[j])
            /\ (e = Len(s) \/ ~IsDigit(s[e + 1]))

\* int(m.group(1)): base 10, most significant digit first.
RECURSIVE IntOf(_)
IntOf(run) ==
    IF run = <<>> THEN 0
    ELSE 10 * IntOf(SubSeq(run, 1, Len(run) - 1)) + DigitValue(run[Len(run)])

\* A key that orders every name by its lowercased form alone.
keyfnNoNumber(s) == <<0, Lower(s)>>

keyfn(s) ==
    << IF HasDigit(s) THEN IntOf(SubSeq(s, MatchStart(s), MatchEnd(s))) ELSE Sentinel,
       Lower(s) >>

\* Python's tuple comparison k1 < k2 on keys.
KeyLess(k1, k2) == k1[1] < k2[1] \/ (k1[1] = k2[1] /\ StrLess(k1[2], k2[2]))

\* list.sort(key=keyfn) is stable: an element goes after every element whose
\* key is not greater than its own.
RECURSIVE InsertSorted(_, _)
InsertSorted(x, q) ==
    IF q = <<>> THEN <<x>>
    ELSE IF KeyLess(keyfn(x), keyfn(q[1])) THEN <<x>> \o q
    ELSE <<q[1]>> \o InsertSorted(x, Tail(q))

RECURSIVE SortFiles(_)
SortFiles(q) ==
    IF q = <<>> THEN <<>>
    ELSE InsertSorted(q[Len(q)], SortFiles(SubSeq(q, 1, Len(q) - 1)))

\* ------------------------------------------------------------ the directory
\* The entry names the directory img may hold while the script is run again
\* and again. img4.png names a subdirectory; the others name regular files.
LifePool ==
    {
      <<"i","m","g","1",".","j","p","g">>,  \* img1.jpg
      <<"I","M","G","1",".","J","P","G">>,  \* IMG1.JPG
      <<"i","m","g","2",".","p","n","g">>,  \* img2.png
      <<"c","o","v","e","r",".","p","n","g">>,  \* cover.png
      <<"i","m","g","4",".","p","n","g">>   \* img4.png
    }

\* Further entry names, for a single run over a richer directory.
MorePool ==
    {
      <<"i","m","g",".","g","i","f">>,  \* img.gif
      <<"i","m","g","1","0",".","w","e","b","p">>,  \* img10.webp
      <<"I","M","G","3",".","G","I","F">>,  \* IMG3.GIF
      <<"i","m","g","1","0","_","v","2",".","j","p","g">>,  \* img10_v2.jpg
      <<"i","m","g","0","2",".","j","p","e","g">>,  \* img02.jpeg
      <<"I","M","G","B",".","j","p","e","g">>,  \* IMGB.jpeg
      <<"i","m","g","7",".","t","x","t">>,  \* img7.txt
      <<"i","m","g","6",".","p","n","g",".","b","a","k">>,  \* img6.png.bak
      <<"i","m","g","1","0","0","0","0","0","0","0","0","0",".","p","n","g">>,  \* img1000000000.png
      <<"i","m","g","2","0","0","0","0","0","0","0","0","0",".","p","n","g">>,  \* img2000000000.png
      <<"i","m","g","U0663",".","p","n","g">>   \* img<U+0663>.png
    }

NamePool == LifePool \cup MorePool

\* The entries that are subdirectories whenever they are present.
Subdirs == { <<"i","m","g","4",".","p","n","g">> }

\* "images.json", and os.path.join(IMG_DIR, "images.json").
OutName == <<"i","m","a","g","e","s",".","j","s","o","n">>
out_path == "img/images.json"

\* ------------------------------------------------------------------ state
VARIABLES
    entries,    \* the names of the entries of img, images.json apart
    manifest,   \* the file img/images.json
    pc,         \* the statement the process is at; "idle" when none has run
    files,      \* the list files
    stdout,     \* the lines the current (or last) process has printed
    exitCode,   \* the exit status of the last process that ended
    failedAt,   \* the call whose exception ended the last process, or "none"
    before      \* images.json as it was when the current (or last) process started

vars == <<entries, manifest, pc, files, stdout, exitCode, failedAt, before>>

\* images.json: absent; or present with the filenames written so far, complete
\* once the whole array has been written and the file closed.
Absent == [exists |-> FALSE, items |-> <<>>, complete |-> FALSE]
Truncated == [exists |-> TRUE, items |-> <<>>, complete |-> FALSE]
Written(q) == [exists |-> TRUE, items |-> q, complete |-> TRUE]
Partial(q, j) == [exists |-> TRUE, items |-> SubSeq(q, 1, j), complete |-> FALSE]

\* What os.listdir(IMG_DIR) returns, as a set: images.json is an entry of img too.
DirNames == entries \cup (IF manifest.exists THEN {OutName} ELSE {})

\* The orders a listing of the set S may come in ("in arbitrary order").
RECURSIVE Perms(_)
Perms(S) ==
    IF S = {} THEN {<<>>}
    ELSE UNION { { <<x>> \o q : q \in Perms(S \ {x}) } : x \in S }

Dirs(pool) == { S \in SUBSET pool : Cardinality(S) <= MaxEntries }

InitWith(pool) ==
    /\ entries \in Dirs(pool)
    /\ manifest = Absent
    /\ pc = "idle"
    /\ files = <<>>
    /\ stdout = <<>>
    /\ exitCode = 0
    /\ failedAt = "none"
    /\ before = Absent

Init == InitWith(LifePool)

\* ---------------------------------------------------------------- the script
\* python generate_images_json.py: a new process, nothing kept from the last.
Invoke ==
    /\ pc \in {"idle", "exited"}
    /\ pc' = "scan"
    /\ files' = <<>>
    /\ stdout' = <<>>
    /\ failedAt' = "none"
    /\ before' = manifest
    /\ UNCHANGED <<entries, manifest, exitCode>>

\* An uncaught exception ends the process with status 1.
Raise(call) ==
    /\ pc' = "exited"
    /\ exitCode' = 1
    /\ failedAt' = call

\* A listing error that is swallowed: the script goes on with no file.
ScanFailSwallowed ==
    /\ pc = "scan"
    /\ pc' = "sort"
    /\ failedAt' = "listdir"
    /\ UNCHANGED <<entries, manifest, files, stdout, exitCode, before>>

\* os.listdir raises: img is missing, not a directory or unreadable.
ScanFail ==
    /\ pc = "scan"
    /\ Raise("listdir")
    /\ UNCHANGED <<entries, manifest, files, stdout, before>>

\* files = [] and the loop over os.listdir(IMG_DIR).
Scan ==
    /\ pc = "scan"
    /\ \E listing \in Perms(DirNames) : files' = FilterListing(listing)
    /\ pc' = "sort"
    /\ UNCHANGED <<entries, manifest, stdout, exitCode, failedAt, before>>

\* files.sort(key=keyfn)
Sort ==
    /\ pc = "sort"
    /\ files' = SortFiles(files)
    /\ pc' = "open"
    /\ UNCHANGED <<entries, manifest, stdout, exitCode, failedAt, before>>

\* A file opened for appending keeps what it held.
OpenedAppend == IF manifest.exists THEN [manifest EXCEPT !.complete = FALSE] ELSE Truncated

\* open(out_path, "w"): the file is created, or emptied.
Opened == Truncated

Open ==
    /\ pc = "open"
    /\ manifest' = Opened
    /\ pc' = "dump"
    /\ UNCHANGED <<entries, files, stdout, exitCode, failedAt, before>>

\* open raises: the file is left as it was.
OpenFail ==
    /\ pc = "open"
    /\ Raise("open")
    /\ UNCHANGED <<entries, manifest, files, stdout, before>>

\* json.dump(files, f, ...) and the close that ends the with block.
Dump ==
    /\ pc = "dump"
    /\ manifest' = Written(manifest.items \o files)
    /\ pc' = "print"
    /\ UNCHANGED <<entries, files, stdout, exitCode, failedAt, before>>

\* A write (or the flush of the close) raises after j filenames have reached
\* the file: what was written stays in it.
DumpFail ==
    /\ pc = "dump"
    /\ \E j \in 0..Len(files) : manifest' = Partial(manifest.items \o files, Len(manifest.items) + j)
    /\ Raise("dump")
    /\ UNCHANGED <<entries, files, stdout, before>>

\* The count of a status line that counts the entries of the directory.
StatusCountEntries == Cardinality(DirNames)

\* len(files)
StatusCount == Len(files)

\* print("OK ->", out_path, "(", len(files), "imgs )"), and the end of the script.
Report ==
    /\ pc = "print"
    /\ stdout' = Append(stdout, [path |-> out_path, count |-> StatusCount])
    /\ pc' = "exited"
    /\ exitCode' = 0
    /\ UNCHANGED <<entries, manifest, files, failedAt, before>>

Run == Invoke \/ ScanFail \/ Scan \/ Sort \/ Open \/ OpenFail \/ Dump \/ DumpFail \/ Report

\* ------------------------------------------------------------ the environment
\* Between two runs files are added to and removed from img. The process
\* that ran last is gone by then: nothing of it is left but images.json.
Gone ==
    /\ pc' = "idle"
    /\ files' = <<>>
    /\ stdout' = <<>>
    /\ exitCode' = 0
    /\ failedAt' = "none"
    /\ before' = manifest

AddEntry ==
    /\ pc \in {"idle", "exited"}
    /\ Cardinality(entries) < MaxEntries
    /\ \E n \in LifePool \ entries : entries' = entries \cup {n}
    /\ Gone
    /\ UNCHANGED manifest

RemoveEntry ==
    /\ pc \in {"idle", "exited"}
    /\ \E n \in entries : entries' = entries \ {n}
    /\ Gone
    /\ UNCHANGED manifest

Next == Run \/ AddEntry \/ RemoveEntry

\* The script run again and again on a directory that changes between runs.
Spec == Init /\ [][Next]_vars

\* One run of the script on any directory of the larger pool.
InitOnce == InitWith(NamePool)

InvokeOnce == pc = "idle" /\ Invoke

NextOnce == InvokeOnce \/ ScanFail \/ Scan \/ Sort \/ Open \/ OpenFail \/ Dump \/ DumpFail \/ Report

SpecOnce == InitOnce /\ [][NextOnce]_vars

\* The script run again and again on a directory nobody else touches.
SpecAgain == Init /\ [][Run]_vars

\* ------------------------------------------------------- what the claims use
\* A run that ended with status 0.
Succeeded == pc = "exited" /\ exitCode = 0

\* The number of times n occurs in the sequence q.
Occurrences(q, n) == Cardinality({i \in 1..Len(q) : q[i] = n})

\* a stands before b in the sequence q.
PrecedesIn(q, a, b) == \E i, j \in 1..Len(q) : i < j /\ q[i] = a /\ q[j] = b

\* The extension as the claims word it: the part of the name from its last dot.
FromLastDot(s) == IF RFind(s, ".") = 0 THEN <<>> ELSE SubSeq(s, RFind(s, "."), Len(s))

\* A name the claims call matching.
IsImageName(n) == StartsWith(Lower(n), Prefix) /\ FromLastDot(Lower(n)) \in allowed

\* s has one of the digits D.
HasRunOf(s, D(_)) == \E i \in 1..Len(s) : D(s[i])

\* The value of the first maximal run of the digits D in s (s has one), written
\* out as a sum of digit * 10^position.
RECURSIVE SumDigits(_, _, _)
SumDigits(s, b, e) ==
    IF b > e THEN 0 ELSE DigitValue(s[b]) * 10^(e - b) + SumDigits(s, b + 1, e)

FirstRunValue(s, D(_)) ==
    LET b == CHOOSE i \in 1..Len(s) : D(s[i]) /\ \A j \in 1..(i - 1) : ~D(s[j])
        e == CHOOSE k \in b..Len(s) :
                /\ \A j \in b..k : D(s[j])
                /\ (k = Len(s) \/ ~D(s[k + 1]))
    IN  SumDigits(s, b, e)

\* The number of a name's digit run, a digit being what \d matches.
RunNumber(s) == FirstRunValue(s, IsDigit)
\* The same with ASCII digits only.
AsciiRunNumber(s) == FirstRunValue(s, IsAsciiDigit)
HasRun(s) == HasRunOf(s, IsDigit)
HasAsciiRun(s) == HasRunOf(s, IsAsciiDigit)

\* ------------------------------------------------------------------ claims
\* C1: the manifest a successful run writes holds exactly the listed names whose
\* lowercased form starts with "img" and whose lowercased extension (from the
\* last dot) is allowed; each of them once, in its original case, and no other.
C1_ManifestIsFilteredListing ==
    Succeeded =>
        /\ manifest.complete
        /\ \A n \in NamePool \cup {OutName} :
              Occurrences(manifest.items, n) = IF n \in DirNames /\ IsImageName(n) THEN 1 ELSE 0
        /\ \A i \in 1..Len(manifest.items) : manifest.items[i] \in DirNames

\* A successful run on a directory with a matching name that is not lowercase
\* and a name that does not match.
C1_Witness ==
    /\ Succeeded
    /\ \E n \in entries : n # Lower(n) /\ Occurrences(manifest.items, n) = 1
    /\ \E n \in entries : ~IsImageName(n)

\* The order C2 states between a and b: by number, then by lowercased name.
NumberThenNameLeq(a, b) ==
    \/ RunNumber(a) < RunNumber(b)
    \/ RunNumber(a) = RunNumber(b) /\ ~StrLess(Lower(b), Lower(a))

\* C2 as stated: two names of the manifest with a digit run stand in the order
\* of their numbers, and of their lowercased names (<=) when the numbers are equal.
C2_AsStated ==
    Succeeded =>
        \A a, b \in {manifest.items[i] : i \in 1..Len(manifest.items)} :
            (a # b /\ HasRun(a) /\ HasRun(b)) =>
                (PrecedesIn(manifest.items, a, b) <=> NumberThenNameLeq(a, b))

\* C2 as amended: files.sort puts a before b iff a's number is less, or the
\* numbers are equal and a's lowercased name is less, or both are equal and a
\* came first in the listing; and that sorted list is what is written.
C2_SortedByNumberThenName ==
    [][ /\ (pc = "sort" /\ pc' = "open") =>
            \A a, b \in {files[i] : i \in 1..Len(files)} :
                (a # b /\ HasRun(a) /\ HasRun(b)) =>
                    (PrecedesIn(files', a, b) <=>
                        \/ RunNumber(a) < RunNumber(b)
                        \/ RunNumber(a) = RunNumber(b) /\ StrLess(Lower(a), Lower(b))
                        \/ /\ RunNumber(a) = RunNumber(b)
                           /\ Lower(a) = Lower(b)
                           /\ PrecedesIn(files, a, b))
        /\ (pc = "dump" /\ pc' = "print") => manifest'.items = files
      ]_vars

\* A sorted list of three names with digit runs: two that differ only in case
\* and one whose number, not its name, decides its place.
C2_Witness ==
    /\ pc = "open"
    /\ Len(files) = 3
    /\ \A i \in 1..3 : HasRun(files[i])
    /\ \E i, j \in 1..3 : i # j /\ Lower(files[i]) = Lower(files[j])
    /\ \E i, j \in 1..3 :
          RunNumber(files[i]) < RunNumber(files[j]) /\ StrLess(Lower(files[j]), Lower(files[i]))

\* C3: in every manifest each name without a digit run stands after each name
\* with one, whatever its number.
C3_NoDigitRunLast ==
    Succeeded =>
        \A a, b \in {manifest.items[i] : i \in 1..Len(manifest.items)} :
            (HasRun(a) /\ ~HasRun(b)) => PrecedesIn(manifest.items, a, b)

\* C4: a successful run on the directory a successful run has just left
\* writes the same images.json again.
C4_SameManifestAgain ==
    (Succeeded /\ before.complete) => manifest = before

\* C5: when the directory cannot be listed the run ends with a non-zero status,
\* images.json is as it was (absent or unchanged) and no status line is printed.
C5_ListingErrorWritesNothing ==
    (pc = "exited" /\ failedAt = "listdir") =>
        /\ exitCode # 0
        /\ manifest = before
        /\ stdout = <<>>

\* A run that could not list a directory that holds an images.json.
C5_Witness ==
    /\ pc = "exited"
    /\ failedAt = "listdir"
    /\ manifest.complete
    /\ manifest.items # <<>>

\* C6: no subdirectory of img is listed in the manifest.
C6_NoSubdirectoryListed ==
    Succeeded => \A i \in 1..Len(manifest.items) : manifest.items[i] \notin Subdirs

\* C7: when the write fails (at open or later) the run ends with a non-zero
\* status and images.json is the complete new manifest or as it was before.
C7_WriteAllOrNothing ==
    (pc = "exited" /\ failedAt \in {"open", "dump"}) =>
        /\ exitCode # 0
        /\ (manifest = Written(files) \/ manifest = before)

\* C8: after a successful run images.json holds the names of the entries
\* present at that run that match, each once, whatever it held before; none
\* of its former names is left unless it is such an entry; images.json is not
\* among them.
C8_RegeneratedFromDirectory ==
    Succeeded =>
        /\ manifest.complete
        /\ {manifest.items[i] : i \in 1..Len(manifest.items)} = {n \in entries : IsImageName(n)}
        /\ Len(manifest.items) = Cardinality({n \in entries : IsImageName(n)})
        /\ Occurrences(manifest.items, OutName) = 0

\* A successful run over an images.json that listed a file no longer there,
\* and that is itself listed by os.listdir.
C8_Witness ==
    /\ Succeeded
    /\ before.complete
    /\ \E i \in 1..Len(before.items) : before.items[i] \notin entries
    /\ manifest.items # <<>>

\* C9: a status line is printed only by a run that has written the manifest,
\* every successful run prints one, its count is the number of names in the
\* manifest; with no matching entry the manifest is [] and the count 0.
C9_StatusAfterWrite ==
    /\ stdout # <<>> =>
          /\ Succeeded
          /\ manifest = Written(files)
          /\ stdout = << [path |-> out_path, count |-> Len(manifest.items)] >>
    /\ Succeeded => Len(stdout) = 1
    /\ (Succeeded /\ \A n \in entries : ~IsImageName(n)) =>
          /\ manifest = Written(<<>>)
          /\ stdout[1].count = 0

\* A successful run on a directory with entries, none of which matches.
C9_Witness ==
    /\ Succeeded
    /\ entries # {}
    /\ \A n \in entries : ~IsImageName(n)
    /\ stdout # <<>>

\* C10: the number keyfn gives a name is the value of its first maximal run
\* of ASCII digits, and 10^9 exactly when the name has no ASCII digit.
C10_KeyIsFirstAsciiRun ==
    pc = "open" =>
        \A i \in 1..Len(files) :
            /\ HasAsciiRun(files[i]) => keyfn(files[i])[1] = AsciiRunNumber(files[i])
            /\ keyfn(files[i])[1] = Sentinel <=> ~HasAsciiRun(files[i])

====
